---- MODULE Spec2Model ----
(***************************************************************************)
(* A model of unimail's paginated streaming, pagination navigation and     *)
(* incremental sync code:                                                  *)
(*   EmailStreamService   (services/EmailStreamService.ts)                 *)
(*   GmailAdapter / OutlookAdapter streamEmails, fetchEmailsStream         *)
(*   PaginationHelper     (utils/PaginationHelper.ts)                      *)
(*   GmailAdapter getHistory / getEmailById / processSync                  *)
(* Three specifications share the module: SpecStream, SpecPage, SpecSync.  *)
(* Each leaves the variables of the other two at their idle values.        *)
(***************************************************************************)
EXTENDS Integers, Sequences, FiniteSets, TLC

(***************************************************************************)
(* Bounds of the model and constants of the program.                       *)
(***************************************************************************)
\* number of items the provider's result set holds, at most
MaxFeed == 5

\* EmailStreamService.createEmailStream: options.batchSize || 50
DefaultBatchSize == 50

\* pages of the result set a PaginationHelper walks, at most
MaxPages == 3

\* the page size the PaginationHelper is built with (initialOptions.pageSize)
PageSize == 2

\* calls made on one PaginationHelper, at most
MaxCalls == 4

\* change entries on one change-feed page, at most
MaxEntries == 3

\* the HTTP status users.history.list answers for an unknown or expired startHistoryId
NotFound == 404

\* option values a caller passes for batchSize and maxEmails
BatchSizeChoices == {-1, 0, 1, 2}
MaxEmailsChoices == {-1, 0, 1, 3, 4}

VARIABLES
  \* ---- stream: inputs
  mode,            \* "callbacks" (fetchEmailsStream) or "pull" (for await of streamEmails)
  options,         \* EmailStreamOptions: batchSize, maxEmails (each given or not)
  callbacks,       \* EmailStreamCallbacks: which of the four are registered
  feedLen,         \* number of items of the provider's result set
  \* ---- stream: the generator createEmailStream (reached through streamEmails)
  genPc,           \* "start", "fetching", "yielded", "done"
  pageToken,       \* let pageToken; 0 is undefined
  totalProcessed,  \* let totalProcessed
  hasMore,         \* let hasMore
  requestSize,     \* let requestSize of the fetch in flight
  response,        \* the page fetchPageFn returned last
  genOut,          \* what the generator handed over: none, batch, done, configError, fetchError
  \* ---- stream: fetchEmailsStream and processEmailStream
  drvPc,           \* position of the consumer
  firstBatch,      \* firstBatch.value
  remPending,      \* remainingGenerator has not yielded firstBatch.value yet
  emailBatch,      \* loop variable of the for await
  batchNumber,     \* let batchNumber
  summary,         \* EmailStreamSummary
  caught,          \* the error the inner catch holds
  thrown,          \* the error the call is failing with
  \* ---- stream: observation
  fetchLog,        \* every fetchPageFn call: pageToken and pageSize
  yieldLog,        \* every batch the stream yielded
  batchLog,        \* every call of the caller's onBatch
  cbLog,           \* callbacks in call order
  failedBatches,   \* batch numbers whose callbacks raised inside processEmailStream
  completeLog,     \* the summaries onComplete received
  \* ---- pagination: the adapter's result set and the PaginationHelper
  pages,           \* the result set as the adapter pages it: the size of each page
  state,           \* PaginationHelper.state
  calls,           \* number of calls made on the helper
  lastCall,        \* the call that ended last: operation, state before, outcome
  prevCall,        \* the call before it
  \* ---- sync: GmailAdapter.processSync
  syncPc,          \* "idle", "getHistory", "records", "returned", "raised"
  startHistoryId,  \* options.startHistoryId; 0 is undefined
  feedPage,        \* what users.history.list answers when it answers
  historyError,    \* the error users.history.list raised, if it did
  historyResponse, \* const historyResponse
  entryIndex,      \* how many change entries the loops have passed
  addedEmails,     \* const addedEmails (an email is named by its id)
  deletedEmailIds, \* const deletedEmailIds
  updatedEmails,   \* const updatedEmails
  processedIds,    \* const processedIds
  hydrations,      \* every getEmailById call: the entry, the id, the outcome
  syncResult,      \* the SyncResult returned
  syncError,       \* the message of the Error raised, outermost part first
  hydrator,        \* what getEmailById may answer for each id
  firstPass,       \* the SyncResult of the pass before this one, if there was one
  mailbox,         \* the history records of the mailbox after history id 1, oldest first
  passLog,         \* the passes that returned before this one: start id, record count
  \* ---- tokens: MemoryTokenStorage
  tokenStore,      \* private tokenStore: Map<string, TokenData>
  tokenCall,       \* the call that ended last: operation, arguments, store before
  \* ---- iteration: PaginationHelper.iterateAllPages and its consumer
  iterPc,          \* "idle", "start", "yielded", "done", "raised", "stopped"
  iterResponse,    \* const response of the loop: the page yielded last
  iterYields,      \* the data of every page yielded
  iterFetches,     \* the pageToken of every adapter.fetchEmails call of the iteration
  pulls,           \* how many times the consumer called next()
  \* ---- all pages: fetchEmails({ getAllPages: true, limit }) of an adapter
  resultSize,      \* number of items of the provider's result set
  limit,           \* options.limit
  allPageEmails,   \* const allEmails of fetchAllEmailPages
  nextPageToken,   \* let nextPageToken; 0 is undefined
  allPc,           \* "idle", "loop", "returned", "raised", "continued"
  allResult,       \* the PaginatedEmailsResponse returned
  continuation,    \* the page a later fetchEmails({ pageToken }) returned
  \* ---- imap: ImapAdapter
  imapPc,          \* "idle", "connecting", "connected"
  retries,         \* private retries
  attempts,        \* client.connect() calls the running fetchEmails call has made
  imapLog          \* every fetchEmails call that ended: its attempts and its outcome

streamVars == <<mode, options, callbacks, feedLen, genPc, pageToken, totalProcessed,
                hasMore, requestSize, response, genOut, drvPc, firstBatch, remPending,
                emailBatch, batchNumber, summary, caught, thrown, fetchLog, yieldLog,
                batchLog, cbLog, failedBatches, completeLog>>

pageVars == <<pages, state, calls, lastCall, prevCall>>
syncVars == <<syncPc, startHistoryId, feedPage, historyError, historyResponse,
              entryIndex, addedEmails, deletedEmailIds, updatedEmails, processedIds,
              hydrations, syncResult, syncError, hydrator, firstPass, mailbox,
              passLog>>
tokenVars == <<tokenStore, tokenCall>>
iterVars == <<iterPc, iterResponse, iterYields, iterFetches, pulls>>
allVars == <<resultSize, limit, allPageEmails, nextPageToken, allPc, allResult, continuation>>
imapVars == <<imapPc, retries, attempts, imapLog>>
notStream == <<pageVars, syncVars, tokenVars, iterVars, allVars, imapVars>>
notPage == <<streamVars, syncVars, tokenVars, iterVars, allVars, imapVars>>
notSync == <<streamVars, pageVars, tokenVars, iterVars, allVars, imapVars>>
notTokens == <<streamVars, pageVars, syncVars, iterVars, allVars, imapVars>>
notIterate == <<streamVars, syncVars, tokenVars, allVars, imapVars>>
notAll == <<streamVars, pageVars, syncVars, tokenVars, iterVars, imapVars>>
notImap == <<streamVars, pageVars, syncVars, tokenVars, iterVars, allVars>>

streamIn == <<mode, options, callbacks, feedLen>>
genVars == <<genPc, pageToken, totalProcessed, hasMore, requestSize, response, genOut,
             fetchLog, yieldLog>>
drvVars == <<drvPc, firstBatch, remPending, emailBatch, batchNumber, summary, caught,
             thrown>>
obsVars == <<batchLog, cbLog, failedBatches, completeLog>>

(***************************************************************************)
(* Helpers.                                                                *)
(***************************************************************************)
RECURSIVE SumLen(_)
SumLen(s) == IF s = <<>> THEN 0 ELSE Len(Head(s)) + SumLen(Tail(s))

Min(a, b) == IF a <= b THEN a ELSE b

\* an optional numeric option
Absent == [has |-> FALSE, val |-> 0]
Given(n) == [has |-> TRUE, val |-> n]

\* JavaScript truthiness of an optional number: undefined and 0 are falsy
Truthy(o) == o.has /\ o.val # 0

\* the values of an optional numeric argument
OptChoices(S) == {Absent} \cup {Given(n) : n \in S}

\* the items of a page: positions off+1 .. off+k of the result set
Items(off, k) == [i \in 1..k |-> off + i]

(***************************************************************************)
(* EmailStreamService: pure parts.                                         *)
(***************************************************************************)
\* validateStreamOptions: does it throw?
ValidateThrows(o) ==
  \/ (Truthy(o.batchSize) /\ o.batchSize.val <= 0)
  \/ (Truthy(o.maxEmails) /\ o.maxEmails.val <= 0)

\* const batchSize = options.batchSize || 50
BatchSizeOf(o) == IF Truthy(o.batchSize) THEN o.batchSize.val ELSE DefaultBatchSize

\* let requestSize = batchSize; if (maxEmails && ...) requestSize = maxEmails - totalProcessed
RequestSizeOf(o, tp) ==
  IF Truthy(o.maxEmails) /\ (tp + BatchSizeOf(o)) > o.maxEmails.val
  THEN o.maxEmails.val - tp
  ELSE BatchSizeOf(o)

\* if (maxEmails && totalProcessed >= maxEmails) break
MaxReached(o, tp) == Truthy(o.maxEmails) /\ tp >= o.maxEmails.val

\* the provider: a page of at most pageSize items starting after offset tok;
\* it may return fewer than requested, and an empty page only when nothing is left
PageLengths(tok, size) ==
  IF feedLen - tok <= 0 THEN {0} ELSE 1..Min(size, feedLen - tok)

NextTokenOf(tok, k) == IF tok + k < feedLen THEN tok + k ELSE 0

AlwaysHasMore(tok) == TRUE

\* hasMore = !!pageToken
HasMoreAfter(tok) == tok # 0

(***************************************************************************)
(* The generator createEmailStream, run through streamEmails.              *)
(***************************************************************************)
\* the head of the while loop down to the call of fetchPageFn
GenLoopHead(tp, tok, hm) ==
  /\ totalProcessed' = tp
  /\ pageToken' = tok
  /\ hasMore' = hm
  /\ IF hm /\ RequestSizeOf(options, tp) > 0
     THEN /\ genPc' = "fetching"
          /\ requestSize' = RequestSizeOf(options, tp)
          /\ genOut' = "none"
          /\ fetchLog' = Append(fetchLog, [pageToken |-> tok,
                                           pageSize |-> RequestSizeOf(options, tp)])
     ELSE /\ genPc' = "done"
          /\ requestSize' = 0
          /\ genOut' = "done"
          /\ UNCHANGED fetchLog

\* generator.next(): from the start through validateStreamOptions, or from the
\* yield through the bookkeeping after it, to the next fetch or to the end
GenNext ==
  /\ UNCHANGED <<response, yieldLog>>
  /\ CASE genPc = "start" ->
            IF ValidateThrows(options)
            THEN /\ genPc' = "done"
                 /\ genOut' = "configError"
                 /\ UNCHANGED <<pageToken, totalProcessed, hasMore, requestSize, fetchLog>>
            ELSE GenLoopHead(0, 0, TRUE)
       [] genPc = "yielded" ->
            LET tp == totalProcessed + Len(response.emails)
                tok == response.nextPageToken
            IN IF MaxReached(options, tp)
               THEN /\ totalProcessed' = tp
                    /\ pageToken' = tok
                    /\ hasMore' = HasMoreAfter(tok)
                    /\ genPc' = "done"
                    /\ genOut' = "done"
                    /\ requestSize' = 0
                    /\ UNCHANGED fetchLog
               ELSE GenLoopHead(tp, tok, HasMoreAfter(tok))
       [] OTHER ->
            /\ genPc' = "done"
            /\ genOut' = "done"
            /\ UNCHANGED <<pageToken, totalProcessed, hasMore, requestSize, fetchLog>>

\* generator.return(): the consumer left its for await early
GenReturn ==
  /\ genPc' = "done"
  /\ genOut' = "none"
  /\ UNCHANGED <<pageToken, totalProcessed, hasMore, requestSize, response, fetchLog,
                 yieldLog>>

GenUnchanged == UNCHANGED genVars

\* the error fetchPageFn raises when it raises
FetchFailure == "fetchError"

WrapsError(error) == "streamError"

\* catch (error) { console.error('Error in email stream:', error); throw error; }
Rethrown(error) == error

\* await fetchPageFn(pageToken, requestSize) completes: it raises, or returns a page
FetchPage ==
  /\ genPc = "fetching"
  /\ \/ /\ genPc' = "done"
        /\ genOut' = Rethrown(FetchFailure)
        /\ UNCHANGED <<response, yieldLog>>
     \/ \E k \in PageLengths(pageToken, requestSize) :
          /\ response' = [emails |-> Items(pageToken, k),
                          nextPageToken |-> NextTokenOf(pageToken, k)]
          /\ IF k = 0
             THEN /\ genPc' = "done"
                  /\ genOut' = "done"
                  /\ UNCHANGED yieldLog
             ELSE /\ genPc' = "yielded"
                  /\ genOut' = "batch"
                  /\ yieldLog' = Append(yieldLog, Items(pageToken, k))
  /\ UNCHANGED <<pageToken, totalProcessed, hasMore, requestSize, fetchLog>>
  /\ UNCHANGED <<streamIn, drvVars, obsVars, notStream>>

(***************************************************************************)
(* fetchEmailsStream (GmailAdapter, OutlookAdapter) and                    *)
(* EmailStreamService.processEmailStream.  Authentication is taken to      *)
(* succeed; a callback raises or returns, chosen at each call.             *)
(***************************************************************************)
NewSummary == [totalProcessed |-> 0, totalBatches |-> 0, errors |-> 0]

\* const firstBatch = await streamGenerator.next()
StartStream ==
  /\ mode = "callbacks"
  /\ drvPc = "start"
  /\ GenNext
  /\ drvPc' = "awaitFirst"
  /\ UNCHANGED <<firstBatch, remPending, emailBatch, batchNumber, summary, caught, thrown>>
  /\ UNCHANGED <<streamIn, obsVars, notStream>>

\* the first next() settles: it raised, it yielded the first batch, or the stream is done
ReceiveFirst ==
  /\ drvPc = "awaitFirst"
  /\ genOut # "none"
  /\ CASE genOut = "batch" ->
            /\ firstBatch' = response.emails
            /\ drvPc' = "firstOnBatch"
            /\ UNCHANGED thrown
       [] genOut = "done" ->
            /\ drvPc' = "loopNext"
            /\ UNCHANGED <<firstBatch, thrown>>
       [] OTHER ->
            /\ drvPc' = "raised"
            /\ thrown' = genOut
            /\ UNCHANGED firstBatch
  /\ UNCHANGED <<remPending, emailBatch, batchNumber, summary, caught>>
  /\ UNCHANGED <<streamIn, genVars, obsVars, notStream>>

\* await enhancedCallbacks.onBatch(firstBatch.value, progress), before processEmailStream
FirstOnBatch ==
  /\ drvPc = "firstOnBatch"
  /\ IF callbacks.onBatch
     THEN \E ok \in BOOLEAN :
            /\ batchLog' = Append(batchLog, [batch |-> firstBatch, batchCount |-> 1,
                                             current |-> Len(firstBatch),
                                             inLoop |-> FALSE, ok |-> ok])
            /\ cbLog' = Append(cbLog, [cb |-> "onBatch", n |-> 1])
            /\ IF ok
               THEN /\ drvPc' = "loopNext"
                    /\ remPending' = TRUE
                    /\ UNCHANGED thrown
               ELSE /\ drvPc' = "raised"
                    /\ thrown' = "onBatch"
                    /\ UNCHANGED remPending
     ELSE /\ drvPc' = "loopNext"
          /\ remPending' = TRUE
          /\ UNCHANGED <<batchLog, cbLog, thrown>>
  /\ UNCHANGED <<firstBatch, emailBatch, batchNumber, summary, caught>>
  /\ UNCHANGED <<failedBatches, completeLog>>
  /\ UNCHANGED <<streamIn, genVars, notStream>>

\* the head of the loop body: batchNumber++, summary.totalBatches, summary.totalProcessed
EnterBody(b) ==
  /\ emailBatch' = b
  /\ batchNumber' = batchNumber + 1
  /\ summary' = [summary EXCEPT !.totalBatches = batchNumber + 1,
                                !.totalProcessed = @ + Len(b)]
  /\ drvPc' = "onBatch"

\* for await (const emailBatch of streamGenerator): ask for the next batch
LoopNext ==
  /\ drvPc = "loopNext"
  /\ IF remPending
     THEN /\ remPending' = FALSE
          /\ EnterBody(firstBatch)
          /\ GenUnchanged
     ELSE /\ GenNext
          /\ drvPc' = "awaitNext"
          /\ UNCHANGED <<remPending, emailBatch, batchNumber, summary>>
  /\ UNCHANGED <<firstBatch, caught, thrown>>
  /\ UNCHANGED <<streamIn, obsVars, notStream>>

\* the awaited next() settles inside processEmailStream
LoopReceive ==
  /\ drvPc = "awaitNext"
  /\ genOut # "none"
  /\ CASE genOut = "batch" ->
            /\ EnterBody(response.emails)
            /\ UNCHANGED thrown
       [] genOut = "done" ->
            /\ drvPc' = "finally"
            /\ UNCHANGED <<emailBatch, batchNumber, summary, thrown>>
       [] OTHER ->
            /\ drvPc' = "finally"
            /\ thrown' = genOut
            /\ UNCHANGED <<emailBatch, batchNumber, summary>>
  /\ UNCHANGED <<firstBatch, remPending, caught>>
  /\ UNCHANGED <<streamIn, genVars, obsVars, notStream>>

\* if (callbacks.onBatch) await callbacks.onBatch(emailBatch, progress)
OnBatch ==
  /\ drvPc = "onBatch"
  /\ IF callbacks.onBatch
     THEN \E ok \in BOOLEAN :
            /\ batchLog' = Append(batchLog, [batch |-> emailBatch,
                                             batchCount |-> batchNumber,
                                             current |-> summary.totalProcessed,
                                             inLoop |-> TRUE, ok |-> ok])
            /\ cbLog' = Append(cbLog, [cb |-> "onBatch", n |-> batchNumber])
            /\ IF ok
               THEN /\ drvPc' = "onProgress"
                    /\ UNCHANGED caught
               ELSE /\ drvPc' = "catch"
                    /\ caught' = "onBatch"
     ELSE /\ drvPc' = "onProgress"
          /\ UNCHANGED <<batchLog, cbLog, caught>>
  /\ UNCHANGED <<firstBatch, remPending, emailBatch, batchNumber, summary, thrown>>
  /\ UNCHANGED <<failedBatches, completeLog>>
  /\ UNCHANGED <<streamIn, genVars, notStream>>

SkipsOnProgress ==
  /\ drvPc = "onProgress"
  /\ drvPc' = "loopNext"
  /\ UNCHANGED <<cbLog, caught>>
  /\ UNCHANGED <<firstBatch, remPending, emailBatch, batchNumber, summary, thrown>>
  /\ UNCHANGED <<batchLog, failedBatches, completeLog>>
  /\ UNCHANGED <<streamIn, genVars, notStream>>

\* if (callbacks.onProgress) await callbacks.onProgress(progress)
OnProgress ==
  /\ drvPc = "onProgress"
  /\ IF callbacks.onProgress
     THEN \E ok \in BOOLEAN :
            /\ cbLog' = Append(cbLog, [cb |-> "onProgress", n |-> batchNumber])
            /\ IF ok
               THEN /\ drvPc' = "loopNext"
                    /\ UNCHANGED caught
               ELSE /\ drvPc' = "catch"
                    /\ caught' = "onProgress"
     ELSE /\ drvPc' = "loopNext"
          /\ UNCHANGED <<cbLog, caught>>
  /\ UNCHANGED <<firstBatch, remPending, emailBatch, batchNumber, summary, thrown>>
  /\ UNCHANGED <<batchLog, failedBatches, completeLog>>
  /\ UNCHANGED <<streamIn, genVars, notStream>>

SwallowsEveryError(cb) == TRUE

\* if (callbacks.onError) ... else throw error
HasErrorHandler(cb) == cb.onError

\* catch (error): summary.errors++, then onError or the re-throw, which leaves the
\* for await and so returns the generator
CatchBatchError ==
  /\ drvPc = "catch"
  /\ summary' = [summary EXCEPT !.errors = @ + 1]
  /\ failedBatches' = failedBatches \cup {batchNumber}
  /\ IF HasErrorHandler(callbacks)
     THEN \E ok \in BOOLEAN :
            /\ cbLog' = Append(cbLog, [cb |-> "onError", n |-> batchNumber])
            /\ IF ok
               THEN /\ drvPc' = "loopNext"
                    /\ UNCHANGED thrown
                    /\ GenUnchanged
               ELSE /\ drvPc' = "finally"
                    /\ thrown' = "onError"
                    /\ GenReturn
     ELSE /\ drvPc' = "finally"
          /\ thrown' = caught
          /\ GenReturn
          /\ UNCHANGED cbLog
  /\ UNCHANGED <<firstBatch, remPending, emailBatch, batchNumber, caught>>
  /\ UNCHANGED <<batchLog, completeLog>>
  /\ UNCHANGED <<streamIn, notStream>>

\* finally: if (callbacks.onComplete) await callbacks.onComplete(summary)
Finally ==
  /\ drvPc = "finally"
  /\ IF callbacks.onComplete
     THEN \E ok \in BOOLEAN :
            /\ completeLog' = Append(completeLog, summary)
            /\ cbLog' = Append(cbLog, [cb |-> "onComplete", n |-> batchNumber])
            /\ thrown' = IF ok THEN thrown ELSE "onComplete"
            /\ drvPc' = IF ok /\ thrown = "none" THEN "returned" ELSE "raised"
     ELSE /\ drvPc' = IF thrown = "none" THEN "returned" ELSE "raised"
          /\ UNCHANGED <<completeLog, cbLog, thrown>>
  /\ UNCHANGED <<firstBatch, remPending, emailBatch, batchNumber, summary, caught>>
  /\ UNCHANGED <<batchLog, failedBatches>>
  /\ UNCHANGED <<streamIn, genVars, notStream>>

(***************************************************************************)
(* A caller's own for await over streamEmails(options).                    *)
(***************************************************************************)
PullNext ==
  /\ mode = "pull"
  /\ drvPc \in {"start", "pull"}
  /\ GenNext
  /\ drvPc' = "awaitPull"
  /\ UNCHANGED <<firstBatch, remPending, emailBatch, batchNumber, summary, caught, thrown>>
  /\ UNCHANGED <<streamIn, obsVars, notStream>>

PullReceive ==
  /\ drvPc = "awaitPull"
  /\ genOut # "none"
  /\ CASE genOut = "batch" ->
            /\ emailBatch' = response.emails
            /\ batchNumber' = batchNumber + 1
            /\ drvPc' = "pull"
            /\ UNCHANGED thrown
       [] genOut = "done" ->
            /\ drvPc' = "returned"
            /\ UNCHANGED <<emailBatch, batchNumber, thrown>>
       [] OTHER ->
            /\ drvPc' = "raised"
            /\ thrown' = genOut
            /\ UNCHANGED <<emailBatch, batchNumber>>
  /\ UNCHANGED <<firstBatch, remPending, summary, caught>>
  /\ UNCHANGED <<streamIn, genVars, obsVars, notStream>>

\* the caller breaks out of its loop
PullStop ==
  /\ drvPc = "pull"
  /\ GenReturn
  /\ drvPc' = "returned"
  /\ UNCHANGED <<firstBatch, remPending, emailBatch, batchNumber, summary, caught, thrown>>
  /\ UNCHANGED <<streamIn, obsVars, notStream>>

(***************************************************************************)
(* PaginationHelper.  The adapter serves a frozen result set page by page: *)
(* page i holds pages[i] items, the token of page i > 1 is i, and 0 stands *)
(* for the undefined token of the first page.  A call is one action; the   *)
(* adapter's fetchEmails may raise on any one fetch of the call (failAt).  *)
(***************************************************************************)
RECURSIVE ItemsBefore(_, _)
\* the number of items on the pages before page i
ItemsBefore(pg, i) == IF i <= 1 THEN 0 ELSE pg[i - 1] + ItemsBefore(pg, i - 1)

PageIndex(tok) == IF tok = 0 THEN 1 ELSE tok

\* adapter.fetchEmails({pageToken: tok}) on the frozen result set
PageAt(tok) ==
  [emails |-> Items(ItemsBefore(pages, PageIndex(tok)), pages[PageIndex(tok)]),
   nextPageToken |-> IF PageIndex(tok) < Len(pages) THEN PageIndex(tok) + 1 ELSE 0]

NoResponse == [emails |-> <<>>, nextPageToken |-> 0]

NoPagination == [currentPage |-> 0, hasNextPage |-> FALSE, hasPreviousPage |-> FALSE,
                 isFirstPage |-> FALSE, isLastPage |-> FALSE]

NoResult == [kind |-> "none", data |-> <<>>, pagination |-> NoPagination]
NullResult == [kind |-> "null", data |-> <<>>, pagination |-> NoPagination]

\* the running call: the helper's state, the fetches made, the error raised
NewCall(st, failAt) ==
  [st |-> st, failAt |-> failAt, fetched |-> <<>>, err |-> "none",
   resp |-> NoResponse, result |-> NoResult]

\* await this.adapter.fetchEmails({...options, pageToken: tok, pageSize})
AdapterFetch(c, tok) ==
  IF Len(c.fetched) + 1 = c.failAt
  THEN [c EXCEPT !.fetched = Append(@, tok), !.err = "fetch"]
  ELSE [c EXCEPT !.fetched = Append(@, tok), !.resp = PageAt(tok)]

\* createPaginationMetadata(response)
createPaginationMetadata(st, resp) ==
  [currentPage |-> st.currentPage,
   hasNextPage |-> resp.nextPageToken # 0,
   hasPreviousPage |-> Len(st.previousPageTokens) > 0,
   isFirstPage |-> st.currentPage = 1,
   isLastPage |-> ~(resp.nextPageToken # 0)]

fetchCurrentPage(c) ==
  LET c1 == AdapterFetch(c, c.st.currentPageToken)
  IN IF c1.err # "none" THEN c1
     ELSE [c1 EXCEPT !.result = [kind |-> "page", data |-> c1.resp.emails,
                                 pagination |-> createPaginationMetadata(c1.st, c1.resp)]]

\* if (this.state.currentPageToken) this.state.previousPageTokens.push(...)
PushCurrentToken(st) ==
  IF st.currentPageToken # 0
  THEN [st EXCEPT !.previousPageTokens = Append(@, st.currentPageToken)]
  ELSE st

goToNextPage(c) ==
  LET st1 == PushCurrentToken(c.st)
      c1 == AdapterFetch([c EXCEPT !.st = st1], st1.currentPageToken)
  IN IF c1.err # "none" THEN c1
     ELSE IF c1.resp.nextPageToken = 0 THEN [c1 EXCEPT !.err = "noNextPage"]
     ELSE fetchCurrentPage(
            [c1 EXCEPT !.st = [st1 EXCEPT !.currentPageToken = c1.resp.nextPageToken,
                                          !.currentPage = @ + 1,
                                          !.totalFetched = @ + Len(c1.resp.emails)]])

RefetchesCurrentPage(c) == fetchCurrentPage(c)

goToPreviousPage(c) ==
  IF Len(c.st.previousPageTokens) = 0
  THEN [c EXCEPT !.err = "noPreviousPage"]
  ELSE LET h == c.st.previousPageTokens
       IN fetchCurrentPage(
            [c EXCEPT !.st = [c.st EXCEPT !.previousPageTokens = SubSeq(h, 1, Len(h) - 1),
                                          !.currentPageToken = h[Len(h)],
                                          !.currentPage = @ - 1]])

fetchNextPage(c) ==
  LET c1 == fetchCurrentPage(c)
  IN IF c1.err # "none" THEN c1
     ELSE IF ~c1.result.pagination.hasNextPage THEN [c1 EXCEPT !.result = NullResult]
     ELSE goToNextPage(c1)

fetchPreviousPage(c) ==
  IF Len(c.st.previousPageTokens) = 0
  THEN [c EXCEPT !.result = NullResult]
  ELSE goToPreviousPage(c)

FirstPageState == [currentPageToken |-> 0, previousPageTokens |-> <<>>,
                   currentPage |-> 1, totalFetched |-> 0]

KeepsHistory(c) ==
  fetchCurrentPage([c EXCEPT !.st = [c.st EXCEPT !.currentPageToken = 0,
                                                 !.currentPage = 1]])

goToFirstPage(c) == fetchCurrentPage([c EXCEPT !.st = FirstPageState])

ReportsLastResponse(c, allEmails, totalPages, maxEmails) ==
  [c EXCEPT !.result =
     [kind |-> "all",
      data |-> IF Truthy(maxEmails)
               THEN SubSeq(allEmails, 1, Min(maxEmails.val, Len(allEmails)))
               ELSE allEmails,
      pagination |-> c.result.pagination]]

\* const finalEmails = maxEmails ? allEmails.slice(0, maxEmails) : allEmails, and the
\* fixed pagination block of the returned object
AllPagesResult(c, allEmails, totalPages, maxEmails) ==
  [c EXCEPT !.result =
     [kind |-> "all",
      data |-> IF Truthy(maxEmails)
               THEN SubSeq(allEmails, 1, Min(maxEmails.val, Len(allEmails)))
               ELSE allEmails,
      pagination |-> [currentPage |-> totalPages, hasNextPage |-> FALSE,
                      hasPreviousPage |-> FALSE, isFirstPage |-> TRUE,
                      isLastPage |-> TRUE]]]

RECURSIVE FetchAllLoop(_, _, _, _)
\* one round of the do ... while (true) of fetchAllPages
FetchAllLoop(c, allEmails, totalPages, maxEmails) ==
  LET c1 == fetchCurrentPage(c)
      all1 == allEmails \o c1.result.data
  IN IF c1.err # "none" THEN c1
     ELSE IF Truthy(maxEmails) /\ Len(all1) >= maxEmails.val
     THEN AllPagesResult(c1, all1, totalPages + 1, maxEmails)
     ELSE IF c1.result.pagination.hasNextPage
     THEN LET c2 == goToNextPage(c1)
          IN IF c2.err # "none" THEN c2
             ELSE FetchAllLoop(c2, all1, totalPages + 1, maxEmails)
     ELSE AllPagesResult(c1, all1, totalPages + 1, maxEmails)

fetchAllPages(c, maxEmails) ==
  LET c0 == goToFirstPage(c)
  IN IF c0.err # "none" THEN c0 ELSE FetchAllLoop(c0, <<>>, 0, maxEmails)

\* which fetch of a call raises: none (0), or one of those the call makes
FailChoices(n) == 0..n

\* the limits a caller passes to fetchAllPages
MaxItemsChoices == OptChoices({0, 3, 4})

\* the call ends: the helper keeps the state the call left, raised or not
EndCall(op, arg, c) ==
  /\ calls < MaxCalls
  /\ calls' = calls + 1
  /\ state' = c.st
  /\ prevCall' = [op |-> lastCall.op, pre |-> lastCall.pre, err |-> lastCall.err]
  /\ lastCall' = [op |-> op, arg |-> arg, pre |-> state, err |-> c.err,
                  result |-> IF c.err = "none" THEN c.result ELSE NoResult,
                  fetched |-> c.fetched]
  /\ UNCHANGED pages
  /\ UNCHANGED notPage

FetchCurrentPage ==
  \E f \in FailChoices(Len(fetchCurrentPage(NewCall(state, 0)).fetched)) :
     EndCall("fetchCurrentPage", Absent, fetchCurrentPage(NewCall(state, f)))

FetchNextPage ==
  \E f \in FailChoices(Len(fetchNextPage(NewCall(state, 0)).fetched)) :
     EndCall("fetchNextPage", Absent, fetchNextPage(NewCall(state, f)))

FetchPreviousPage ==
  \E f \in FailChoices(Len(fetchPreviousPage(NewCall(state, 0)).fetched)) :
     EndCall("fetchPreviousPage", Absent, fetchPreviousPage(NewCall(state, f)))

GoToNextPage ==
  \E f \in FailChoices(Len(goToNextPage(NewCall(state, 0)).fetched)) :
     EndCall("goToNextPage", Absent, goToNextPage(NewCall(state, f)))

GoToPreviousPage ==
  \E f \in FailChoices(Len(goToPreviousPage(NewCall(state, 0)).fetched)) :
     EndCall("goToPreviousPage", Absent, goToPreviousPage(NewCall(state, f)))

GoToFirstPage ==
  \E f \in FailChoices(Len(goToFirstPage(NewCall(state, 0)).fetched)) :
     EndCall("goToFirstPage", Absent, goToFirstPage(NewCall(state, f)))

FetchAllPages ==
  \E m \in MaxItemsChoices :
     \E f \in FailChoices(Len(fetchAllPages(NewCall(state, 0), m).fetched)) :
        EndCall("fetchAllPages", m, fetchAllPages(NewCall(state, f), m))

NoCall == [op |-> "none", arg |-> Absent, pre |-> FirstPageState, err |-> "none",
           result |-> NoResult, fetched |-> <<>>]

NoPrevCall == [op |-> "none", pre |-> FirstPageState, err |-> "none"]

\* a result set of n items as the adapter pages it: full pages of PageSize items and
\* a last page of what is left; the empty result set is one empty page
PagesOf(n) ==
  IF n = 0 THEN <<0>>
  ELSE [i \in 1..((n + PageSize - 1) \div PageSize) |->
          IF i * PageSize <= n THEN PageSize ELSE n - (i - 1) * PageSize]

Feeds == {PagesOf(n) : n \in 0..(MaxPages * PageSize)}

PageIdle ==
  /\ pages = <<>>
  /\ state = FirstPageState
  /\ calls = 0
  /\ lastCall = NoCall
  /\ prevCall = NoPrevCall

(***************************************************************************)
(* PaginationHelper.iterateAllPages.  One next() of the consumer runs the  *)
(* generator to its next yield, to its end, or to the fetch that raises.   *)
(***************************************************************************)
ResumesFromCurrent(c) == fetchCurrentPage(c)

\* await this.goToFirstPage(); then the first round: await this.fetchCurrentPage()
IterFirst(c) ==
  LET c0 == goToFirstPage(c)
  IN IF c0.err # "none" THEN c0 ELSE fetchCurrentPage(c0)

\* after the yield: await this.goToNextPage(); then await this.fetchCurrentPage()
IterResume(c) ==
  LET c1 == goToNextPage(c)
  IN IF c1.err # "none" THEN c1 ELSE fetchCurrentPage(c1)

\* the generator runs from where it is suspended to where it suspends next
IterRun(c) ==
  /\ pulls' = pulls + 1
  /\ state' = c.st
  /\ iterFetches' = iterFetches \o c.fetched
  /\ IF c.err # "none"
     THEN /\ iterPc' = "raised"
          /\ UNCHANGED <<iterResponse, iterYields>>
     ELSE /\ iterPc' = "yielded"
          /\ iterResponse' = c.result
          /\ iterYields' = Append(iterYields, c.result.data)
  /\ UNCHANGED <<pages, calls, lastCall, prevCall>>
  /\ UNCHANGED notIterate

\* const it = helper.iterateAllPages(): nothing runs before the first next()
IterStart ==
  /\ iterPc = "idle"
  /\ iterPc' = "start"
  /\ UNCHANGED <<iterResponse, iterYields, iterFetches, pulls>>
  /\ UNCHANGED pageVars
  /\ UNCHANGED notIterate

\* the first next()
IterNextFirst ==
  /\ iterPc = "start"
  /\ \E f \in FailChoices(Len(IterFirst(NewCall(state, 0)).fetched)) :
       IterRun(IterFirst(NewCall(state, f)))

\* a later next(): if (response.pagination.hasNextPage) ... else break
IterNext ==
  /\ iterPc = "yielded"
  /\ IF iterResponse.pagination.hasNextPage
     THEN \E f \in FailChoices(Len(IterResume(NewCall(state, 0)).fetched)) :
            IterRun(IterResume(NewCall(state, f)))
     ELSE /\ iterPc' = "done"
          /\ pulls' = pulls + 1
          /\ UNCHANGED <<iterResponse, iterYields, iterFetches>>
          /\ UNCHANGED pageVars
          /\ UNCHANGED notIterate

\* the consumer leaves its for await, or just stops calling next()
IterStop ==
  /\ iterPc = "yielded"
  /\ iterPc' = "stopped"
  /\ UNCHANGED <<iterResponse, iterYields, iterFetches, pulls>>
  /\ UNCHANGED pageVars
  /\ UNCHANGED notIterate

IterIdle ==
  /\ iterPc = "idle"
  /\ iterResponse = NoResult
  /\ iterYields = <<>>
  /\ iterFetches = <<>>
  /\ pulls = 0

(***************************************************************************)
(* GmailAdapter.getHistory, getEmailById and processSync.  A change-feed   *)
(* page is a sequence of history records, each with its four lists of      *)
(* message ids.  Authentication is taken to succeed.                       *)
(***************************************************************************)
MessageIds == {"A", "B"}
ChangeKinds == {"messagesAdded", "messagesDeleted", "labelsAdded", "labelsRemoved"}

EmptyRecord == [messagesAdded |-> <<>>, messagesDeleted |-> <<>>,
                labelsAdded |-> <<>>, labelsRemoved |-> <<>>]

\* a change as the provider lists it: its kind, its message, and whether it opens a
\* new history record
Changes == [kind : ChangeKinds, id : MessageIds, opens : BOOLEAN]

AddChange(rec, ch) ==
  CASE ch.kind = "messagesAdded" -> [rec EXCEPT !.messagesAdded = Append(@, ch.id)]
    [] ch.kind = "messagesDeleted" -> [rec EXCEPT !.messagesDeleted = Append(@, ch.id)]
    [] ch.kind = "labelsAdded" -> [rec EXCEPT !.labelsAdded = Append(@, ch.id)]
    [] OTHER -> [rec EXCEPT !.labelsRemoved = Append(@, ch.id)]

RECURSIVE RecordsOf(_, _)
\* the history records a sequence of changes makes up
RecordsOf(chs, recs) ==
  IF chs = <<>> THEN recs
  ELSE IF recs = <<>> \/ Head(chs).opens
  THEN RecordsOf(Tail(chs), Append(recs, AddChange(EmptyRecord, Head(chs))))
  ELSE RecordsOf(Tail(chs),
                 [recs EXCEPT ![Len(recs)] = AddChange(recs[Len(recs)], Head(chs))])

Histories == {RecordsOf(chs, <<>>) : chs \in UNION {[1..n -> Changes] : n \in 0..MaxEntries}}

\* the ids of a list, each tagged with the branch of processSync that handles the list
Tagged(ids, branch) == [i \in 1..Len(ids) |-> [branch |-> branch, id |-> ids[i]]]

\* the entries of one record in the order the three loops of processSync take them:
\* messagesAdded, messagesDeleted, then labelsAdded followed by labelsRemoved
RecordEntries(rec) ==
  Tagged(rec.messagesAdded, "added") \o Tagged(rec.messagesDeleted, "deleted")
    \o Tagged(rec.labelsAdded \o rec.labelsRemoved, "updated")

RECURSIVE FeedEntries(_)
\* for (const record of historyResponse.history): all entries in loop order
FeedEntries(history) ==
  IF history = <<>> THEN <<>>
  ELSE RecordEntries(Head(history)) \o FeedEntries(Tail(history))

\* maxResults, the most records users.history.list puts on a page
SyncMaxResults == 2

\* what users.history.list may raise: a status and whether the message names historyId
HistoryErrors == [code : {NotFound, 500}, mentionsHistoryId : BOOLEAN]

NoHistoryError == [code |-> 0, mentionsHistoryId |-> FALSE]

\* getHistory's catch: (error.code === 404 || error.message?.includes('historyId'))
getHistoryError(e) ==
  IF e.code = NotFound \/ e.mentionsHistoryId
  THEN <<"History ID is too old or invalid">>
  ELSE <<"Failed to get history", "provider message">>

DropsInnerMessage(inner) == <<"Failed to process sync">>

\* processSync's catch: throw new Error(`Failed to process sync: ${error.message}`)
processSyncError(inner) == <<"Failed to process sync">> \o inner

\* getEmailById's catch, for an error that is not a 404
getEmailByIdError == <<"Failed to get email by ID", "provider message">>

NoSyncResult == [returned |-> FALSE, addedEmails |-> <<>>, deletedEmailIds |-> <<>>,
                 updatedEmails |-> <<>>, processedHistoryRecords |-> 0,
                 newHistoryId |-> 0, hasMoreChanges |-> FALSE, nextPageToken |-> 0]

NoHistoryResponse == [history |-> <<>>, nextPageToken |-> 0, historyId |-> 0]

NeverMissing(h) == FALSE

\* if (!startHistoryId): undefined, or the empty string
MissingCheckpoint(h) == h = 0

\* processSync(options) up to the call of getHistory
SyncStart ==
  /\ syncPc = "idle"
  /\ \E h \in {0, 1} :
       /\ startHistoryId' = h
       /\ IF MissingCheckpoint(h)
          THEN /\ syncPc' = "raised"
               /\ syncError' = <<"startHistoryId is required for processSync">>
          ELSE /\ syncPc' = "getHistory"
               /\ UNCHANGED syncError
  /\ UNCHANGED <<feedPage, historyError, historyResponse, entryIndex, addedEmails,
                 deletedEmailIds, updatedEmails, processedIds, hydrations, syncResult>>
  /\ UNCHANGED <<hydrator, firstPass, mailbox, passLog>>
  /\ UNCHANGED notSync

\* await this.getHistory(startHistoryId, options) settles
GetHistory ==
  /\ syncPc = "getHistory"
  /\ \/ /\ historyResponse' = feedPage
        /\ syncPc' = "records"
        /\ UNCHANGED <<historyError, syncError>>
     \/ \E e \in HistoryErrors :
          /\ historyError' = e
          /\ syncError' = processSyncError(getHistoryError(e))
          /\ syncPc' = "raised"
          /\ UNCHANGED historyResponse
  /\ UNCHANGED <<startHistoryId, feedPage, entryIndex, addedEmails, deletedEmailIds,
                 updatedEmails, processedIds, hydrations, syncResult>>
  /\ UNCHANGED <<hydrator, firstPass, mailbox, passLog>>
  /\ UNCHANGED notSync

NextEntry == FeedEntries(historyResponse.history)[entryIndex + 1]

NeverProcessed(ids, id) == FALSE

\* if (!processedIds.has(message.id)) { ... }: the entry is skipped
AlreadyProcessed(ids, id) == id \in ids

MarksEveryHydration(ids, id, out) == ids \cup {id}

\* if (email) { ...push(email); processedIds.add(message.id) }
ProcessedAfterHydration(ids, id, out) == IF out = "email" THEN ids \cup {id} ELSE ids

\* what users.messages.get does for getEmailById: the message, a 404, another error
HydrationOutcomes == {"email", "null", "error"}

\* a getEmailById whose answer for an id may differ from call to call
AnyHydrator == [id \in MessageIds |-> HydrationOutcomes]

\* a getEmailById that gives the same answer for the same id
SteadyHydrators == [MessageIds -> {{out} : out \in HydrationOutcomes}]

NoFirstPass == [done |-> FALSE, addedEmails |-> <<>>, deletedEmailIds |-> <<>>,
                updatedEmails |-> <<>>]

ContinuesAfterError(out) == "records"

\* getEmailById returned, an email or null: the loop goes on; it raised: the error
\* leaves the loops for the catch of processSync
PcAfterHydration(out) == IF out = "error" THEN "raised" ELSE "records"

\* one turn of an inner loop whose entry hydrates: messagesAdded, labelsAdded/Removed
HydrateEntry ==
  /\ syncPc = "records"
  /\ entryIndex < Len(FeedEntries(historyResponse.history))
  /\ NextEntry.branch \in {"added", "updated"}
  /\ IF AlreadyProcessed(processedIds, NextEntry.id)
     THEN /\ entryIndex' = entryIndex + 1
          /\ UNCHANGED <<addedEmails, updatedEmails, processedIds, hydrations, syncPc,
                         syncError>>
     ELSE \E out \in hydrator[NextEntry.id] :
            /\ hydrations' = Append(hydrations, [entry |-> entryIndex + 1,
                                                 id |-> NextEntry.id, outcome |-> out])
            /\ entryIndex' = entryIndex + 1
            /\ CASE out = "email" ->
                      /\ IF NextEntry.branch = "added"
                         THEN /\ addedEmails' = Append(addedEmails, NextEntry.id)
                              /\ UNCHANGED updatedEmails
                         ELSE /\ updatedEmails' = Append(updatedEmails, NextEntry.id)
                              /\ UNCHANGED addedEmails
                      /\ UNCHANGED syncError
                 [] out = "null" ->
                      UNCHANGED <<addedEmails, updatedEmails, syncError>>
                 [] OTHER ->
                      /\ syncError' = processSyncError(getEmailByIdError)
                      /\ UNCHANGED <<addedEmails, updatedEmails>>
            /\ syncPc' = PcAfterHydration(out)
            /\ processedIds' = ProcessedAfterHydration(processedIds, NextEntry.id, out)
  /\ UNCHANGED <<startHistoryId, feedPage, historyError, historyResponse,
                 deletedEmailIds, syncResult>>
  /\ UNCHANGED <<hydrator, firstPass, mailbox, passLog>>
  /\ UNCHANGED notSync

\* one turn of the messagesDeleted loop
DeleteEntry ==
  /\ syncPc = "records"
  /\ entryIndex < Len(FeedEntries(historyResponse.history))
  /\ NextEntry.branch = "deleted"
  /\ entryIndex' = entryIndex + 1
  /\ IF AlreadyProcessed(processedIds, NextEntry.id)
     THEN UNCHANGED <<deletedEmailIds, processedIds>>
     ELSE /\ deletedEmailIds' = Append(deletedEmailIds, NextEntry.id)
          /\ processedIds' = processedIds \cup {NextEntry.id}
  /\ UNCHANGED <<syncPc, startHistoryId, feedPage, historyError, historyResponse,
                 addedEmails, updatedEmails, hydrations, syncResult, syncError>>
  /\ UNCHANGED <<hydrator, firstPass, mailbox, passLog>>
  /\ UNCHANGED notSync

KeepsStartCheckpoint(resp) == startHistoryId

\* newHistoryId: historyResponse.historyId
NewHistoryIdOf(resp) == resp.historyId

\* return { processedHistoryRecords, addedEmails, ..., newHistoryId, hasMoreChanges }
SyncReturn ==
  /\ syncPc = "records"
  /\ entryIndex = Len(FeedEntries(historyResponse.history))
  /\ syncPc' = "returned"
  /\ syncResult' = [returned |-> TRUE,
                    processedHistoryRecords |-> Len(historyResponse.history),
                    addedEmails |-> addedEmails,
                    deletedEmailIds |-> deletedEmailIds,
                    updatedEmails |-> updatedEmails,
                    newHistoryId |-> NewHistoryIdOf(historyResponse),
                    hasMoreChanges |-> historyResponse.nextPageToken # 0,
                    nextPageToken |-> historyResponse.nextPageToken]
  /\ UNCHANGED <<startHistoryId, feedPage, historyError, historyResponse, entryIndex,
                 addedEmails, deletedEmailIds, updatedEmails, processedIds, hydrations,
                 syncError>>
  /\ UNCHANGED <<hydrator, firstPass, mailbox, passLog>>
  /\ UNCHANGED notSync

SyncIdle ==
  /\ syncPc = "idle"
  /\ startHistoryId = 0
  /\ feedPage = NoHistoryResponse
  /\ historyError = NoHistoryError
  /\ historyResponse = NoHistoryResponse
  /\ entryIndex = 0
  /\ addedEmails = <<>>
  /\ deletedEmailIds = <<>>
  /\ updatedEmails = <<>>
  /\ processedIds = {}
  /\ hydrations = <<>>
  /\ syncResult = NoSyncResult
  /\ syncError = <<>>
  /\ hydrator = AnyHydrator
  /\ firstPass = NoFirstPass
  /\ mailbox = <<>>
  /\ passLog = <<>>

StaleProcessedIds == processedIds

\* const processedIds = new Set<string>(), a local of each processSync call
NewProcessedIds == {}

\* the caller calls processSync again with the same startHistoryId, and
\* users.history.list lists the same records again
SyncAgain ==
  /\ syncPc = "returned"
  /\ ~firstPass.done
  /\ firstPass' = [done |-> TRUE, addedEmails |-> syncResult.addedEmails,
                   deletedEmailIds |-> syncResult.deletedEmailIds,
                   updatedEmails |-> syncResult.updatedEmails]
  /\ syncPc' = "getHistory"
  /\ historyResponse' = NoHistoryResponse
  /\ entryIndex' = 0
  /\ addedEmails' = <<>>
  /\ deletedEmailIds' = <<>>
  /\ updatedEmails' = <<>>
  /\ processedIds' = NewProcessedIds
  /\ hydrations' = <<>>
  /\ syncResult' = NoSyncResult
  /\ UNCHANGED <<startHistoryId, feedPage, historyError, syncError, hydrator>>
  /\ UNCHANGED <<mailbox, passLog>>
  /\ UNCHANGED notSync

\* users.history.list({ startHistoryId, maxResults }) on a mailbox whose k-th record
\* has history id k + 1: the first maxResults records after startHistoryId, a
\* nextPageToken if more follow, and as historyId the current history id of the mailbox
ListHistory(box, h, maxResults) ==
  LET after == SubSeq(box, h, Len(box))
  IN [history |-> SubSeq(after, 1, Min(maxResults, Len(after))),
      nextPageToken |-> IF Len(after) > maxResults THEN 1 ELSE 0,
      historyId |-> Len(box) + 1]

\* the sync loop of the caller: this.syncState.set(userId, syncResult.newHistoryId),
\* then processSync({ startHistoryId: lastHistoryId }) again
ContinueSync ==
  /\ syncPc = "returned"
  /\ syncResult.hasMoreChanges
  /\ passLog' = Append(passLog, [startHistoryId |-> startHistoryId,
                                 processedHistoryRecords |->
                                   syncResult.processedHistoryRecords])
  /\ startHistoryId' = syncResult.newHistoryId
  /\ feedPage' = ListHistory(mailbox, syncResult.newHistoryId, SyncMaxResults)
  /\ syncPc' = "getHistory"
  /\ historyResponse' = NoHistoryResponse
  /\ entryIndex' = 0
  /\ addedEmails' = <<>>
  /\ deletedEmailIds' = <<>>
  /\ updatedEmails' = <<>>
  /\ processedIds' = NewProcessedIds
  /\ hydrations' = <<>>
  /\ syncResult' = NoSyncResult
  /\ UNCHANGED <<historyError, syncError, hydrator, firstPass, mailbox>>
  /\ UNCHANGED notSync

(***************************************************************************)
(* MemoryTokenStorage.  A TokenData is named by its accessToken, its       *)
(* optional refreshToken and one more optional field; an optional field is *)
(* "absent" when the object does not carry it, and a refreshToken may be   *)
(* the empty string.                                                       *)
(***************************************************************************)
UserIds == {"u1", "u2"}

TokenDatas == [accessToken : {"a1", "a2"}, refreshToken : {"absent", "", "r1", "r2"},
               scope : {"absent", "s1"}]

\* undefined, what Map.get answers for a key the map does not hold, and null, each
\* written as a record so that it compares with a TokenData
NoTokens == [accessToken |-> "undefined", refreshToken |-> "absent", scope |-> "absent"]

NullTokens == [accessToken |-> "null", refreshToken |-> "absent", scope |-> "absent"]

\* { ...existingTokens, ...tokens }
Spread(existingTokens, tokens) ==
  [f \in DOMAIN existingTokens |->
     IF tokens[f] = "absent" THEN existingTokens[f] ELSE tokens[f]]

\* a || b on two optional strings
OrElse(a, b) == IF a \in {"absent", ""} THEN b ELSE a

SpreadOnly(existingTokens, tokens) == Spread(existingTokens, tokens)

\* { ...existingTokens, ...tokens,
\*   refreshToken: tokens.refreshToken || existingTokens.refreshToken }
MergedTokens(existingTokens, tokens) ==
  [Spread(existingTokens, tokens) EXCEPT
     !.refreshToken = OrElse(tokens.refreshToken, existingTokens.refreshToken)]

\* this.tokenStore.set(userId, tokens)
saveTokens(store, userId, tokens) == [store EXCEPT ![userId] = tokens]

\* const tokens = this.tokenStore.get(userId); return tokens || null
getTokens(store, userId) ==
  IF store[userId] = NoTokens THEN NullTokens ELSE store[userId]

updateTokens(store, userId, tokens) ==
  IF store[userId] # NoTokens
  THEN [store EXCEPT ![userId] = MergedTokens(store[userId], tokens)]
  ELSE [store EXCEPT ![userId] = tokens]

\* this.tokenStore.delete(userId)
deleteTokens(store, userId) == [store EXCEPT ![userId] = NoTokens]

\* private tokenStore: Map<string, TokenData> = new Map()
NewTokenStore == [userId \in UserIds |-> NoTokens]

NoTokenCall == [op |-> "none", userId |-> "none", tokens |-> NoTokens, before |-> NewTokenStore]

SaveTokens ==
  /\ \E userId \in UserIds, tokens \in TokenDatas :
       /\ tokenStore' = saveTokens(tokenStore, userId, tokens)
       /\ tokenCall' = [op |-> "saveTokens", userId |-> userId, tokens |-> tokens,
                        before |-> tokenStore]
  /\ UNCHANGED notTokens

UpdateTokens ==
  /\ \E userId \in UserIds, tokens \in TokenDatas :
       /\ tokenStore' = updateTokens(tokenStore, userId, tokens)
       /\ tokenCall' = [op |-> "updateTokens", userId |-> userId, tokens |-> tokens,
                        before |-> tokenStore]
  /\ UNCHANGED notTokens

DeleteTokens ==
  /\ \E userId \in UserIds :
       /\ tokenStore' = deleteTokens(tokenStore, userId)
       /\ tokenCall' = [op |-> "deleteTokens", userId |-> userId, tokens |-> NoTokens,
                        before |-> tokenStore]
  /\ UNCHANGED notTokens

TokensIdle ==
  /\ tokenStore = NewTokenStore
  /\ tokenCall = NoTokenCall

(***************************************************************************)
(* fetchEmails({ getAllPages: true, limit }) of GmailAdapter and           *)
(* OutlookAdapter: fetchAllEmailPages.  A pageToken is the number of items *)
(* before the page, 0 for undefined; PageSize stands for the 100 (Gmail)   *)
(* or 50 (Outlook) that caps the size of a request.                        *)
(***************************************************************************)
\* what fetchEmailPage(..., pageSize, ..., pageToken) may answer over a result set of
\* n items: at most pageSize items from pageToken on, possibly fewer, and the token
\* of what follows
ProviderPages(n, tok, size) ==
  {[emails |-> Items(tok, k), nextPageToken |-> IF tok + k < n THEN tok + k ELSE 0] :
     k \in IF n - tok <= 0 \/ size <= 0 THEN {0} ELSE 1..Min(size, n - tok)}

\* const pageSize = size || Math.min(limit, 100), called without size
AllPagesPageSize(lim) == Min(lim, PageSize)

\* return { emails: allEmails.slice(0, limit),
\*          nextPageToken: allEmails.length >= limit ? nextPageToken : undefined }
AllEmailPagesResult(emails, tok, lim) ==
  [emails |-> SubSeq(emails, 1, Min(lim, Len(emails))),
   nextPageToken |-> IF Len(emails) >= lim THEN tok ELSE 0]

NoAllResult == [emails |-> <<>>, nextPageToken |-> 0]

\* one round of the do ... while (true) of fetchAllEmailPages, the return included
\* when the round breaks
FetchEmailPageRound ==
  /\ allPc = "loop"
  /\ \/ /\ allPc' = "raised"
        /\ UNCHANGED <<allPageEmails, nextPageToken, allResult>>
     \/ \E page \in ProviderPages(resultSize, nextPageToken, AllPagesPageSize(limit)) :
          /\ allPageEmails' = allPageEmails \o page.emails
          /\ nextPageToken' = page.nextPageToken
          /\ IF page.nextPageToken = 0 \/ Len(allPageEmails') >= limit
             THEN /\ allPc' = "returned"
                  /\ allResult' = AllEmailPagesResult(allPageEmails', nextPageToken', limit)
             ELSE /\ allPc' = "loop"
                  /\ UNCHANGED allResult
  /\ UNCHANGED <<resultSize, limit, continuation>>
  /\ UNCHANGED notAll

\* the caller continues from the returned token: fetchEmails({ pageToken, limit })
ContinueFromToken ==
  /\ allPc = "returned"
  /\ allResult.nextPageToken # 0
  /\ \E page \in ProviderPages(resultSize, allResult.nextPageToken, limit) :
       continuation' = page.emails
  /\ allPc' = "continued"
  /\ UNCHANGED <<resultSize, limit, allPageEmails, nextPageToken, allResult>>
  /\ UNCHANGED notAll

AllIdle ==
  /\ resultSize = 0
  /\ limit = 0
  /\ allPageEmails = <<>>
  /\ nextPageToken = 0
  /\ allPc = "idle"
  /\ allResult = NoAllResult
  /\ continuation = <<>>

(***************************************************************************)
(* ImapAdapter.fetchEmails and connectWithRetry.                           *)
(***************************************************************************)
\* private maxRetries = 3
maxRetries == 3

\* fetchEmails(...) is called: await this.connectWithRetry() begins
ImapFetchEmails ==
  /\ imapPc = "idle"
  /\ Len(imapLog) < MaxCalls
  /\ imapPc' = "connecting"
  /\ attempts' = 0
  /\ UNCHANGED <<retries, imapLog>>
  /\ UNCHANGED notImap

\* one turn of while (this.retries < this.maxRetries): client.connect() returns, or
\* it raises and the catch does this.retries++
ConnectAttempt ==
  /\ imapPc = "connecting"
  /\ retries < maxRetries
  /\ attempts' = attempts + 1
  /\ \/ /\ imapPc' = "connected"
        /\ UNCHANGED retries
     \/ /\ retries' = retries + 1
        /\ UNCHANGED imapPc
  /\ UNCHANGED imapLog
  /\ UNCHANGED notImap

\* the loop ends: throw new Error(`Failed to connect after ${this.maxRetries} attempts`)
ConnectGiveUp ==
  /\ imapPc = "connecting"
  /\ ~(retries < maxRetries)
  /\ imapPc' = "idle"
  /\ imapLog' = Append(imapLog, [attempts |-> attempts, outcome |-> "connectError"])
  /\ UNCHANGED <<retries, attempts>>
  /\ UNCHANGED notImap

\* the rest of fetchEmails: the messages are read, or an error is re-raised; finally
\* the connection is closed
ImapFetchEnd ==
  /\ imapPc = "connected"
  /\ imapPc' = "idle"
  /\ \E outcome \in {"emails", "fetchError"} :
       imapLog' = Append(imapLog, [attempts |-> attempts, outcome |-> outcome])
  /\ UNCHANGED <<retries, attempts>>
  /\ UNCHANGED notImap

ImapIdle ==
  /\ imapPc = "idle"
  /\ retries = 0
  /\ attempts = 0
  /\ imapLog = <<>>

(***************************************************************************)
(* The stream specification.                                               *)
(***************************************************************************)
NoCallbacks == [onBatch |-> FALSE, onProgress |-> FALSE, onError |-> FALSE,
                onComplete |-> FALSE]

InitStream ==
  /\ mode \in {"callbacks", "pull"}
  /\ options \in [batchSize : OptChoices(BatchSizeChoices),
                  maxEmails : OptChoices(MaxEmailsChoices)]
  /\ callbacks \in IF mode = "callbacks"
                   THEN [onBatch : BOOLEAN, onProgress : BOOLEAN, onError : BOOLEAN,
                         onComplete : BOOLEAN]
                   ELSE {NoCallbacks}
  /\ feedLen \in 0..MaxFeed
  /\ genPc = "start"
  /\ pageToken = 0
  /\ totalProcessed = 0
  /\ hasMore = TRUE
  /\ requestSize = 0
  /\ response = [emails |-> <<>>, nextPageToken |-> 0]
  /\ genOut = "none"
  /\ drvPc = "start"
  /\ firstBatch = <<>>
  /\ remPending = FALSE
  /\ emailBatch = <<>>
  /\ batchNumber = 0
  /\ summary = NewSummary
  /\ caught = "none"
  /\ thrown = "none"
  /\ fetchLog = <<>>
  /\ yieldLog = <<>>
  /\ batchLog = <<>>
  /\ cbLog = <<>>
  /\ failedBatches = {}
  /\ completeLog = <<>>
  /\ PageIdle
  /\ SyncIdle
  /\ TokensIdle
  /\ IterIdle
  /\ AllIdle
  /\ ImapIdle

NextStream ==
  \/ StartStream
  \/ FetchPage
  \/ ReceiveFirst
  \/ FirstOnBatch
  \/ LoopNext
  \/ LoopReceive
  \/ OnBatch
  \/ OnProgress
  \/ CatchBatchError
  \/ Finally
  \/ PullNext
  \/ PullReceive
  \/ PullStop

StreamIdle ==
  /\ mode = "none"
  /\ options = [batchSize |-> Absent, maxEmails |-> Absent]
  /\ callbacks = NoCallbacks
  /\ feedLen = 0
  /\ genPc = "done"
  /\ pageToken = 0
  /\ totalProcessed = 0
  /\ hasMore = FALSE
  /\ requestSize = 0
  /\ response = [emails |-> <<>>, nextPageToken |-> 0]
  /\ genOut = "none"
  /\ drvPc = "idle"
  /\ firstBatch = <<>>
  /\ remPending = FALSE
  /\ emailBatch = <<>>
  /\ batchNumber = 0
  /\ summary = NewSummary
  /\ caught = "none"
  /\ thrown = "none"
  /\ fetchLog = <<>>
  /\ yieldLog = <<>>
  /\ batchLog = <<>>
  /\ cbLog = <<>>
  /\ failedBatches = {}
  /\ completeLog = <<>>

(***************************************************************************)
(* The pagination specification.                                           *)
(***************************************************************************)
InitPage ==
  /\ pages \in Feeds
  /\ state = FirstPageState
  /\ calls = 0
  /\ lastCall = NoCall
  /\ prevCall = NoPrevCall
  /\ StreamIdle
  /\ SyncIdle
  /\ TokensIdle
  /\ IterIdle
  /\ AllIdle
  /\ ImapIdle

NextPage ==
  \/ FetchCurrentPage
  \/ FetchNextPage
  \/ FetchPreviousPage
  \/ GoToNextPage
  \/ GoToPreviousPage
  \/ GoToFirstPage
  \/ FetchAllPages

(***************************************************************************)
(* The sync specification: one processSync pass over one change-feed page. *)
(***************************************************************************)
\* the historyId and the nextPageToken a change-feed page carries
FeedPages == [history : Histories, nextPageToken : {0, 1}, historyId : {2, 3}]

InitSync ==
  /\ syncPc = "idle"
  /\ startHistoryId = 0
  /\ feedPage \in FeedPages
  /\ historyError = NoHistoryError
  /\ historyResponse = NoHistoryResponse
  /\ entryIndex = 0
  /\ addedEmails = <<>>
  /\ deletedEmailIds = <<>>
  /\ updatedEmails = <<>>
  /\ processedIds = {}
  /\ hydrations = <<>>
  /\ syncResult = NoSyncResult
  /\ syncError = <<>>
  /\ hydrator = AnyHydrator
  /\ firstPass = NoFirstPass
  /\ mailbox = <<>>
  /\ passLog = <<>>
  /\ StreamIdle
  /\ PageIdle
  /\ TokensIdle
  /\ IterIdle
  /\ AllIdle
  /\ ImapIdle

NextSync ==
  \/ SyncStart
  \/ GetHistory
  \/ HydrateEntry
  \/ DeleteEntry
  \/ SyncReturn

(***************************************************************************)
(* The replay specification: processSync called twice over the same        *)
(* change-feed page, with a getEmailById that answers the same for the     *)
(* same id.                                                                *)
(***************************************************************************)
ReplayFeedPages == [history : Histories, nextPageToken : {0}, historyId : {2}]

InitReplay ==
  /\ syncPc = "idle"
  /\ startHistoryId = 0
  /\ feedPage \in ReplayFeedPages
  /\ historyError = NoHistoryError
  /\ historyResponse = NoHistoryResponse
  /\ entryIndex = 0
  /\ addedEmails = <<>>
  /\ deletedEmailIds = <<>>
  /\ updatedEmails = <<>>
  /\ processedIds = {}
  /\ hydrations = <<>>
  /\ syncResult = NoSyncResult
  /\ syncError = <<>>
  /\ hydrator \in SteadyHydrators
  /\ firstPass = NoFirstPass
  /\ mailbox = <<>>
  /\ passLog = <<>>
  /\ StreamIdle
  /\ PageIdle
  /\ TokensIdle
  /\ IterIdle
  /\ AllIdle
  /\ ImapIdle

NextReplay ==
  \/ SyncStart
  \/ GetHistory
  \/ HydrateEntry
  \/ DeleteEntry
  \/ SyncReturn
  \/ SyncAgain

(***************************************************************************)
(* The continuous-sync specification: processSync from history id 1 over a *)
(* mailbox, called again from the returned newHistoryId while the result   *)
(* reports more changes.                                                   *)
(***************************************************************************)
InitContinue ==
  /\ syncPc = "idle"
  /\ startHistoryId = 0
  /\ mailbox \in Histories
  /\ feedPage = ListHistory(mailbox, 1, SyncMaxResults)
  /\ historyError = NoHistoryError
  /\ historyResponse = NoHistoryResponse
  /\ entryIndex = 0
  /\ addedEmails = <<>>
  /\ deletedEmailIds = <<>>
  /\ updatedEmails = <<>>
  /\ processedIds = {}
  /\ hydrations = <<>>
  /\ syncResult = NoSyncResult
  /\ syncError = <<>>
  /\ hydrator = AnyHydrator
  /\ firstPass = NoFirstPass
  /\ passLog = <<>>
  /\ StreamIdle
  /\ PageIdle
  /\ TokensIdle
  /\ IterIdle
  /\ AllIdle
  /\ ImapIdle

NextContinue ==
  \/ SyncStart
  \/ GetHistory
  \/ HydrateEntry
  \/ DeleteEntry
  \/ SyncReturn
  \/ ContinueSync

(***************************************************************************)
(* The iteration specification: the helper is navigated, then one          *)
(* iterateAllPages() generator is consumed.                                *)
(***************************************************************************)
InitIterate ==
  /\ pages \in Feeds
  /\ state = FirstPageState
  /\ calls = 0
  /\ lastCall = NoCall
  /\ prevCall = NoPrevCall
  /\ IterIdle
  /\ AllIdle
  /\ ImapIdle
  /\ StreamIdle
  /\ SyncIdle
  /\ TokensIdle

NextIterate ==
  \/ (iterPc = "idle" /\ GoToNextPage)
  \/ (iterPc = "idle" /\ GoToPreviousPage)
  \/ IterStart
  \/ IterNextFirst
  \/ IterNext
  \/ IterStop

(***************************************************************************)
(* The all-pages specification: one fetchEmails call with getAllPages and  *)
(* a limit, then a fetch from the token it returned.                       *)
(***************************************************************************)
InitAllPages ==
  /\ resultSize \in 0..MaxFeed
  /\ limit \in 1..MaxFeed
  /\ allPageEmails = <<>>
  /\ nextPageToken = 0
  /\ allPc = "loop"
  /\ allResult = NoAllResult
  /\ continuation = <<>>
  /\ StreamIdle
  /\ PageIdle
  /\ SyncIdle
  /\ TokensIdle
  /\ IterIdle
  /\ ImapIdle

NextAllPages ==
  \/ FetchEmailPageRound
  \/ ContinueFromToken

(***************************************************************************)
(* The IMAP specification: fetchEmails calls on one adapter instance.      *)
(***************************************************************************)
InitImap ==
  /\ ImapIdle
  /\ StreamIdle
  /\ PageIdle
  /\ SyncIdle
  /\ TokensIdle
  /\ IterIdle
  /\ AllIdle

NextImap ==
  \/ ImapFetchEmails
  \/ ConnectAttempt
  \/ ConnectGiveUp
  \/ ImapFetchEnd

(***************************************************************************)
(* The token storage specification.                                        *)
(***************************************************************************)
InitTokens ==
  /\ TokensIdle
  /\ IterIdle
  /\ AllIdle
  /\ ImapIdle
  /\ StreamIdle
  /\ PageIdle
  /\ SyncIdle

NextTokens ==
  \/ SaveTokens
  \/ UpdateTokens
  \/ DeleteTokens

vars == <<streamVars, pageVars, syncVars, tokenVars, iterVars, allVars, imapVars>>

SpecStream == InitStream /\ [][NextStream]_vars

SpecPage == InitPage /\ [][NextPage]_vars

SpecSync == InitSync /\ [][NextSync]_vars

SpecReplay == InitReplay /\ [][NextReplay]_vars

SpecContinue == InitContinue /\ [][NextContinue]_vars

SpecIterate == InitIterate /\ [][NextIterate]_vars

SpecAllPages == InitAllPages /\ [][NextAllPages]_vars

SpecImap == InitImap /\ [][NextImap]_vars

SpecTokens == InitTokens /\ [][NextTokens]_vars

(***************************************************************************)
(* Claims about the stream.                                                *)
(***************************************************************************)
Terminated == drvPc \in {"returned", "raised"}

\* batch numbers whose onBatch raised inside processEmailStream
OnBatchRaised ==
  {batchLog[i].batchCount : i \in {j \in 1..Len(batchLog) :
                                     batchLog[j].inLoop /\ ~batchLog[j].ok}}

RECURSIVE SumLenExcept(_, _, _)
\* the sizes of batches i..Len(s) of s, those numbered in skip left out
SumLenExcept(s, i, skip) ==
  IF i > Len(s) THEN 0
  ELSE (IF i \in skip THEN 0 ELSE Len(s[i])) + SumLenExcept(s, i + 1, skip)

\* the batches the for await of processEmailStream has taken so far
LoopBatches == SubSeq(yieldLog, 1, batchNumber)

\* C1: in a callback-driven run with onError registered, the summary onComplete
\* receives has totalProcessed equal to the sum of the sizes of exactly the batches
\* whose onBatch returned normally, and errors equal to the number of batches whose
\* callback raised; with no callback failure totalProcessed is the sum of the sizes
\* of all yielded batches.
C1_SummaryExcludesFailedBatches ==
  (mode = "callbacks" /\ completeLog # <<>>) =>
     /\ callbacks.onError =>
          /\ completeLog[1].totalProcessed = SumLenExcept(LoopBatches, 1, OnBatchRaised)
          /\ completeLog[1].errors = Cardinality(failedBatches)
     /\ failedBatches = {} => completeLog[1].totalProcessed = SumLen(yieldLog)

\* C2: a call of fetchEmailsStream with onComplete registered that succeeds, or fails
\* because a page fetch raised (on any page), or because onBatch raised (on any batch)
\* with no onError registered, has invoked onComplete exactly once when it ends.
C2_OnCompleteExactlyOnce ==
  ( /\ mode = "callbacks"
    /\ callbacks.onComplete
    /\ Terminated
    /\ \/ thrown \in {"none", "fetchError"}
       \/ (thrown = "onBatch" /\ ~callbacks.onError) )
  => Len(completeLog) = 1

NonPositive(o) == o.has /\ o.val <= 0

\* C9: a stream started with batchSize <= 0 or with maxEmails given and <= 0, zero
\* included, raises the configuration error and issues no page fetch; with batchSize
\* omitted (and no maxEmails cutting the request) pages of size 50 are requested.
C9_NonPositiveOptionsRejected ==
  /\ (NonPositive(options.batchSize) \/ NonPositive(options.maxEmails)) =>
        /\ fetchLog = <<>>
        /\ genPc # "start" => genOut = "configError"
  /\ (~options.batchSize.has /\ ~options.maxEmails.has) =>
        \A i \in 1..Len(fetchLog) : fetchLog[i].pageSize = DefaultBatchSize

\* the number of items yielded before fetch number i was issued
YieldedBefore(i) == SumLen(SubSeq(yieldLog, 1, i - 1))

\* C10: with maxEmails = M (M >= 0) every page request asks for
\* min(batchSize, M - yielded so far) items, the number of items yielded never
\* exceeds M, and no page is fetched once M items have been yielded.
C10_MaxEmailsBoundsTheStream ==
  (options.maxEmails.has /\ options.maxEmails.val >= 0) =>
     /\ \A i \in 1..Len(fetchLog) :
           /\ fetchLog[i].pageSize =
                Min(BatchSizeOf(options), options.maxEmails.val - YieldedBefore(i))
           /\ YieldedBefore(i) < options.maxEmails.val
     /\ SumLen(yieldLog) <= options.maxEmails.val

\* the part of C10 the code keeps: the same, for a positive M
C10_PositiveMaxEmails ==
  (options.maxEmails.has /\ options.maxEmails.val > 0) =>
     /\ \A i \in 1..Len(fetchLog) :
           /\ fetchLog[i].pageSize =
                Min(BatchSizeOf(options), options.maxEmails.val - YieldedBefore(i))
           /\ YieldedBefore(i) < options.maxEmails.val
     /\ SumLen(yieldLog) <= options.maxEmails.val

(***************************************************************************)
(* Claims about the PaginationHelper.                                      *)
(***************************************************************************)
\* the call before the last one moved the helper one page forward
MovedForward ==
  /\ prevCall.op \in {"goToNextPage", "fetchNextPage"}
  /\ prevCall.err = "none"
  /\ lastCall.pre.currentPage = prevCall.pre.currentPage + 1

\* C5: goToNextPage() immediately followed by goToPreviousPage() succeeds and restores
\* the currentPageToken and currentPage held before the two calls, from the first page
\* too; after moving from page 1 to page 2 the page-2 metadata reports
\* hasPreviousPage = true and fetchPreviousPage() returns a page, not null.
C5_NextThenPreviousRestores ==
  /\ ( /\ lastCall.op = "goToPreviousPage"
       /\ lastCall.err # "fetch"
       /\ prevCall.op = "goToNextPage"
       /\ prevCall.err = "none" )
     => /\ lastCall.err = "none"
        /\ state.currentPageToken = prevCall.pre.currentPageToken
        /\ state.currentPage = prevCall.pre.currentPage
  /\ ( /\ lastCall.op \in {"goToNextPage", "fetchNextPage"}
       /\ lastCall.err = "none"
       /\ lastCall.result.kind = "page" )
     => lastCall.result.pagination.hasPreviousPage
  /\ ( /\ lastCall.op = "fetchPreviousPage"
       /\ lastCall.err = "none"
       /\ MovedForward )
     => lastCall.result.kind = "page"

\* C6: goToNextPage() from cursor c, page p, history h raises the no-next-page error
\* when the page at c has no next cursor; otherwise it ends with currentPageToken the
\* next cursor, currentPage = p + 1 and previousPageTokens = h with c pushed, for every
\* c, the cursor of the first page included.
C6_GoToNextPagePushesAndAdvances ==
  (lastCall.op = "goToNextPage" /\ lastCall.err # "fetch") =>
     IF PageAt(lastCall.pre.currentPageToken).nextPageToken = 0
     THEN lastCall.err = "noNextPage"
     ELSE /\ lastCall.err = "none"
          /\ state.currentPageToken = PageAt(lastCall.pre.currentPageToken).nextPageToken
          /\ state.currentPage = lastCall.pre.currentPage + 1
          /\ state.previousPageTokens =
               Append(lastCall.pre.previousPageTokens, lastCall.pre.currentPageToken)

\* the number of items of the result set
FeedSize == ItemsBefore(pages, Len(pages) + 1)

\* fetchAllPages(N) returned: at most N items, the first N of the result set when it
\* holds that many, and no page fetched beyond the one that brought the aggregate to N
AllPagesWithin(n) ==
  /\ Len(lastCall.result.data) <= n
  /\ FeedSize >= n => lastCall.result.data = Items(0, n)
  /\ \A i \in 1..Len(lastCall.fetched) :
        \/ PageIndex(lastCall.fetched[i]) = 1
        \/ ItemsBefore(pages, PageIndex(lastCall.fetched[i])) < n

\* C7: fetchAllPages(maxItems = N) returns at most N items, exactly the first N items
\* of the feed when the feed holds at least N, and requests no page beyond the page
\* with which the aggregate first reaches N.
C7_FetchAllPagesHonoursLimit ==
  (lastCall.op = "fetchAllPages" /\ lastCall.arg.has /\ lastCall.err = "none") =>
     AllPagesWithin(lastCall.arg.val)

\* the part of C7 the code keeps: the same, for N >= 1
C7_PositiveLimit ==
  ( /\ lastCall.op = "fetchAllPages"
    /\ lastCall.arg.has
    /\ lastCall.arg.val >= 1
    /\ lastCall.err = "none" )
  => AllPagesWithin(lastCall.arg.val)

(***************************************************************************)
(* Claims about processSync.                                               *)
(***************************************************************************)
Entries == FeedEntries(historyResponse.history)

EntryIds == {Entries[i].id : i \in 1..Len(Entries)}

InSeq(x, q) == \E i \in 1..Len(q) : q[i] = x

Count(x, q) == Cardinality({i \in 1..Len(q) : q[i] = x})

\* the bucket of the returned SyncResult a branch of processSync fills
Bucket(branch) ==
  CASE branch = "added" -> syncResult.addedEmails
    [] branch = "deleted" -> syncResult.deletedEmailIds
    [] OTHER -> syncResult.updatedEmails

Branches == {"added", "deleted", "updated"}

Occurrences(id) ==
  Count(id, syncResult.addedEmails) + Count(id, syncResult.deletedEmailIds)
    + Count(id, syncResult.updatedEmails)

\* the first entry for id in feed order
FirstEntry(id) == CHOOSE i \in 1..Len(Entries) :
  /\ Entries[i].id = id
  /\ \A j \in 1..(i - 1) : Entries[j].id # id

\* getEmailById was called for entry i and returned an email
Hydrated(i) == \E k \in 1..Len(hydrations) :
  hydrations[k].entry = i /\ hydrations[k].outcome = "email"

\* entry i is a deletion, or an added or label entry that hydrated to an email
Effective(i) == Entries[i].branch = "deleted" \/ Hydrated(i)

HasEffective(id) == \E i \in 1..Len(Entries) : Entries[i].id = id /\ Effective(i)

FirstEffective(id) == CHOOSE i \in 1..Len(Entries) :
  /\ Entries[i].id = id
  /\ Effective(i)
  /\ \A j \in 1..(i - 1) : ~(Entries[j].id = id /\ Effective(j))

C4_EveryIdInExactlyOneBucket ==
  syncResult.returned => \A id \in EntryIds : Occurrences(id) = 1

\* C4 as amended: every id with a change entry is at most once in the three buckets
\* taken together, and it is in none exactly when it has no deleted entry and every
\* getEmailById call made for it returned null.
C4_EveryIdInAtMostOneBucket ==
  syncResult.returned =>
    \A id \in EntryIds :
      LET occurrences == Occurrences(id)
      IN
      /\ occurrences <= 1
      /\ occurrences = 0 <=>
           /\ \A i \in 1..Len(Entries) : Entries[i].id = id => Entries[i].branch # "deleted"
           /\ \A k \in 1..Len(hydrations) :
                hydrations[k].id = id => hydrations[k].outcome = "null"

\* a pass returned with one id in exactly one bucket and another id in none
C4_Witness ==
  /\ syncResult.returned
  /\ \E a, b \in EntryIds : Occurrences(a) = 1 /\ Occurrences(b) = 0

\* the test the README gives the caller: error.message.includes('too old or invalid')
IsStaleCheckpointError(msg) == InSeq("History ID is too old or invalid", msg)

IsGenericFetchError(msg) == InSeq("Failed to get history", msg)

\* users.history.list rejected the start checkpoint: a 404, or a message naming historyId
CheckpointRejected(e) == e.code = NotFound \/ e.mentionsHistoryId

StoppedByMaxEmails == Truthy(options.maxEmails) /\ totalProcessed >= options.maxEmails.val

GeneratorRaised == genOut \notin {"none", "batch", "done", "configError"}

\* C12: when the page fetcher raises during the fetch of page k, the generator raises
\* that same error after having yielded batches 1..k-1; from then on it issues no
\* fetch and yields nothing; the consumer receives exactly that error, having received
\* batches 1..k-1, and its call ends raising.
C12_FetchFailurePropagatesUnmodified ==
  [][ /\ (genPc = "fetching" /\ genPc' = "done" /\ genOut' # "done") =>
           /\ genOut' = FetchFailure
           /\ Len(fetchLog') = Len(yieldLog') + 1
      /\ GeneratorRaised =>
           /\ fetchLog' = fetchLog
           /\ yieldLog' = yieldLog
           /\ genOut' = genOut
           /\ genPc' = "done"
      /\ (GeneratorRaised /\ thrown = "none" /\ thrown' # "none") =>
           /\ thrown' = FetchFailure
           /\ batchNumber' = Len(yieldLog)
      /\ (GeneratorRaised /\ drvPc' \in {"returned", "raised"}) => drvPc' = "raised"
    ]_vars

\* a pulling consumer received two batches and then the error of the third fetch
C12_Witness ==
  /\ mode = "pull"
  /\ drvPc = "raised"
  /\ thrown = FetchFailure
  /\ batchNumber = 2
  /\ Len(fetchLog) = 3
  /\ Len(yieldLog) = 2

\* the calls of onBatch that raised
RaisedOnBatch == {i \in 1..Len(batchLog) : ~batchLog[i].ok}

\* after an onBatch call raised with no onError registered: that call is the last call
\* of onBatch, no page beyond its batch has been fetched, and the run is on its way out
StopsAtFailedBatch(i) ==
  /\ i = Len(batchLog)
  /\ Len(fetchLog) <= batchLog[i].batchCount
  /\ drvPc \in {"catch", "finally", "raised"}

\* C13 as stated: with no onError registered, when onBatch raises on batch k the run
\* raises that same failure to the caller, no batch after k is passed to onBatch and
\* no page after k is fetched.
C13_OnBatchFailureIsRaised ==
  (mode = "callbacks" /\ ~callbacks.onError) =>
     \A i \in RaisedOnBatch :
        /\ StopsAtFailedBatch(i)
        /\ drvPc = "raised" => thrown = "onBatch"

\* C13 as amended: with no onError registered, when onBatch raises on batch k the run
\* raises, no batch after k is passed to onBatch and no page after k is fetched; the
\* failure raised to the caller is that of onBatch unless onComplete, called in the
\* finally block, raises too, and then it is the failure of onComplete.
C13_OnBatchFailureIsRaisedUnlessOnCompleteRaises ==
  (mode = "callbacks" /\ ~callbacks.onError) =>
     \A i \in RaisedOnBatch :
        /\ StopsAtFailedBatch(i)
        /\ drvPc = "raised" =>
             \/ thrown = "onBatch"
             \/ /\ thrown = "onComplete"
                /\ callbacks.onComplete
                /\ batchLog[i].inLoop
                /\ completeLog # <<>>

\* a run without onError raised the failure of onBatch on its second batch, with two
\* pages fetched of a feed that has more
C13_Witness ==
  /\ mode = "callbacks"
  /\ ~callbacks.onError
  /\ drvPc = "raised"
  /\ thrown = "onBatch"
  /\ batchLog # <<>>
  /\ batchLog[Len(batchLog)].batchCount = 2
  /\ ~batchLog[Len(batchLog)].ok
  /\ Len(fetchLog) = 2
  /\ response.nextPageToken # 0

\* onError was called for batch number n
OnErrorCalledFor(n) == \E j \in 1..Len(cbLog) : cbLog[j].cb = "onError" /\ cbLog[j].n = n

\* C14: with onError registered, a failure of onBatch on batch k is handed to onError
\* and counted once in errors, the run does not raise it, and the run goes on: when it
\* returns, every batch the stream yielded has been passed to onBatch, in stream order.
C14_OnErrorSwallowsBatchFailure ==
  (mode = "callbacks" /\ callbacks.onError /\ drvPc # "catch") =>
     /\ \A i \in RaisedOnBatch : OnErrorCalledFor(batchLog[i].batchCount)
     /\ summary.errors >= Cardinality(RaisedOnBatch)
     /\ thrown # "onBatch"
     /\ (drvPc = "returned" /\ callbacks.onBatch) =>
          \A b \in 1..Len(yieldLog) :
             \E i \in 1..Len(batchLog) :
                /\ batchLog[i].batch = yieldLog[b]
                /\ batchLog[i].batchCount = b

(***************************************************************************)
(* Further claims about processSync.                                       *)
(***************************************************************************)
HydrationRaised == \E k \in 1..Len(hydrations) : hydrations[k].outcome = "error"

\* C15: a getEmailById call that returns null, for an added or for a label entry, adds
\* nothing to the buckets and the pass goes on to the next entry without raising; a
\* getEmailById call that raises makes processSync raise, after it no getEmailById
\* call is made and no result is returned.
C15_NullIsDroppedAndErrorAborts ==
  [][ /\ Len(hydrations') = Len(hydrations) + 1 =>
           LET h == hydrations'[Len(hydrations')]
           IN /\ h.outcome = "null" =>
                   /\ <<addedEmails', deletedEmailIds', updatedEmails'>>
                        = <<addedEmails, deletedEmailIds, updatedEmails>>
                   /\ syncPc' = "records"
                   /\ entryIndex' = entryIndex + 1
                   /\ syncError' = <<>>
              /\ h.outcome = "error" =>
                   /\ syncPc' = "raised"
                   /\ syncError' # <<>>
      /\ HydrationRaised =>
           /\ hydrations' = hydrations
           /\ ~syncResult'.returned
      /\ syncResult'.returned =>
           Len(syncResult'.addedEmails) + Len(syncResult'.updatedEmails)
             = Cardinality({k \in 1..Len(hydrations') : hydrations'[k].outcome = "email"})
    ]_vars

\* a pass returned after getEmailById gave null for an added entry and for a label
\* entry and an email for a later entry
C15_Witness ==
  /\ syncResult.returned
  /\ \E i, j, k \in 1..Len(hydrations) :
       /\ i < k
       /\ j < k
       /\ hydrations[i].outcome = "null"
       /\ Entries[hydrations[i].entry].branch = "added"
       /\ hydrations[j].outcome = "null"
       /\ Entries[hydrations[j].entry].branch = "updated"
       /\ hydrations[k].outcome = "email"

(***************************************************************************)
(* Further claims about the PaginationHelper.                              *)
(***************************************************************************)
\* C16: goToPreviousPage() with an empty history raises the no-previous-page error,
\* fetches nothing and leaves currentPageToken, previousPageTokens, currentPage and
\* totalFetched as they were; with a non-empty history it pops the top of the history
\* into currentPageToken and decreases currentPage by one.
C16_GoToPreviousPageGuardsAndPops ==
  lastCall.op = "goToPreviousPage" =>
     LET h == lastCall.pre.previousPageTokens
     IN IF Len(h) = 0
        THEN /\ lastCall.err = "noPreviousPage"
             /\ lastCall.fetched = <<>>
             /\ state = lastCall.pre
        ELSE /\ lastCall.err # "noPreviousPage"
             /\ state.currentPageToken = h[Len(h)]
             /\ state.previousPageTokens = SubSeq(h, 1, Len(h) - 1)
             /\ state.currentPage = lastCall.pre.currentPage - 1
             /\ lastCall.fetched = <<h[Len(h)]>>

\* goToPreviousPage() returned a page after popping a non-empty history
C16_Witness ==
  /\ lastCall.op = "goToPreviousPage"
  /\ lastCall.err = "none"
  /\ Len(lastCall.pre.previousPageTokens) > 0
  /\ lastCall.result.kind = "page"

\* C19: whatever the navigation before it, goToFirstPage() leaves previousPageTokens
\* empty, currentPageToken unset, currentPage = 1 and totalFetched = 0, fetches with
\* no cursor, and returns the page so fetched.
C19_GoToFirstPageResets ==
  lastCall.op = "goToFirstPage" =>
     /\ state.previousPageTokens = <<>>
     /\ state.currentPageToken = 0
     /\ state.currentPage = 1
     /\ state.totalFetched = 0
     /\ lastCall.fetched = <<0>>
     /\ lastCall.err = "none" =>
          /\ lastCall.result.kind = "page"
          /\ lastCall.result.data = PageAt(0).emails
          /\ lastCall.result.pagination.currentPage = 1

\* goToFirstPage() returned the first page from the third page, with a history and a
\* count of fetched items behind it
C19_Witness ==
  /\ lastCall.op = "goToFirstPage"
  /\ lastCall.err = "none"
  /\ lastCall.pre.currentPage = 3
  /\ lastCall.pre.previousPageTokens # <<>>
  /\ lastCall.pre.totalFetched > 0

\* C20: the pagination metadata fetchAllPages returns reports hasNextPage = false and
\* isLastPage = true, also when the aggregate was cut at maxItems while the provider
\* had further pages.
C20_FetchAllPagesReportsNoNextPage ==
  (lastCall.op = "fetchAllPages" /\ lastCall.err = "none") =>
     /\ lastCall.result.kind = "all"
     /\ ~lastCall.result.pagination.hasNextPage
     /\ lastCall.result.pagination.isLastPage

\* fetchAllPages(3) returned three items of a feed that has a page it did not fetch
C20_Witness ==
  /\ lastCall.op = "fetchAllPages"
  /\ lastCall.err = "none"
  /\ lastCall.arg = Given(3)
  /\ Len(lastCall.result.data) = 3
  /\ \E i \in 1..Len(pages) : i > 1 /\ \A j \in 1..Len(lastCall.fetched) : lastCall.fetched[j] # i

\* C17: the newHistoryId of a returned SyncResult is the historyId the fetched
\* change-feed page carries, whatever the page holds, an empty page included, and
\* hasMoreChanges is true exactly when that page carries a next-page token.
C17_NewHistoryIdComesFromTheFeedPage ==
  syncResult.returned =>
     /\ syncResult.newHistoryId = feedPage.historyId
     /\ syncResult.hasMoreChanges <=> feedPage.nextPageToken # 0
     /\ syncResult.nextPageToken = feedPage.nextPageToken

\* a pass over an empty change-feed page that carries a next-page token returned the
\* page's historyId, which is not the start checkpoint
C17_Witness ==
  /\ syncResult.returned
  /\ feedPage.history = <<>>
  /\ feedPage.nextPageToken # 0
  /\ syncResult.hasMoreChanges
  /\ syncResult.newHistoryId = feedPage.historyId
  /\ syncResult.newHistoryId # startHistoryId

Carries(tokens, f) == tokens[f] \notin {"absent", ""}

\* C22: after any sequence of saveTokens, updateTokens and deleteTokens, an
\* updateTokens(u, t) on a user with stored tokens stores the stored fields overridden
\* by the fields of t, except that the stored refreshToken is kept when t carries none;
\* on a user with no stored tokens it stores t as given; and no operation on u changes
\* what getTokens returns for another user.
C22_UpdateTokensMergesAndIsolatesUsers ==
  tokenCall.op # "none" =>
    LET u == tokenCall.userId
        t == tokenCall.tokens
        stored == tokenCall.before[u]
    IN /\ \A v \in UserIds \ {u} :
            getTokens(tokenStore, v) = getTokens(tokenCall.before, v)
       /\ (tokenCall.op = "updateTokens" /\ stored = NoTokens) =>
            getTokens(tokenStore, u) = t
       /\ (tokenCall.op = "updateTokens" /\ stored # NoTokens) =>
            /\ getTokens(tokenStore, u).accessToken = t.accessToken
            /\ getTokens(tokenStore, u).scope =
                  IF Carries(t, "scope") THEN t.scope ELSE stored.scope
            /\ getTokens(tokenStore, u).refreshToken =
                  IF Carries(t, "refreshToken") THEN t.refreshToken
                  ELSE stored.refreshToken

\* an update without a refreshToken reached a user whose stored tokens have one, while
\* another user has tokens stored
C22_Witness ==
  /\ tokenCall.op = "updateTokens"
  /\ tokenCall.before[tokenCall.userId] # NoTokens
  /\ tokenCall.before[tokenCall.userId].refreshToken = "r1"
  /\ ~Carries(tokenCall.tokens, "refreshToken")
  /\ tokenCall.tokens.accessToken # tokenCall.before[tokenCall.userId].accessToken
  /\ \E v \in UserIds \ {tokenCall.userId} : tokenStore[v] # NoTokens

(***************************************************************************)
(* Claims about consecutive sync passes.                                   *)
(***************************************************************************)
\* the positions in the mailbox of the records a pass returned
ReturnedBy(start, count) == start..(start + count - 1)

\* C23: if processSync(startHistoryId = h) returns hasMoreChanges = true and the
\* caller calls processSync again from the returned newHistoryId, every change record
\* the feed holds after h is returned by one of the passes.
C23_ConsecutivePassesLoseNoChange ==
  (syncPc = "returned" /\ Len(passLog) = 1) =>
     ReturnedBy(passLog[1].startHistoryId, passLog[1].processedHistoryRecords)
       \cup ReturnedBy(startHistoryId, syncResult.processedHistoryRecords)
     = 1..Len(mailbox)

(***************************************************************************)
(* Claims about the delivery of batches.                                   *)
(***************************************************************************)
\* C24: fetchEmailsStream passes every batch the stream yielded to the caller's
\* onBatch exactly once, in stream order, the first batch included; the batchCount
\* values onBatch sees are 1, 2, 3, ... without repetition.
C24_EveryBatchDeliveredOnce ==
  (mode = "callbacks" /\ callbacks.onBatch /\ drvPc = "returned") =>
     /\ Len(batchLog) = Len(yieldLog)
     /\ \A i \in 1..Len(batchLog) :
          /\ batchLog[i].batch = yieldLog[i]
          /\ batchLog[i].batchCount = i

(***************************************************************************)
(* Claims about the pagination state after failed calls.                   *)
(***************************************************************************)
\* C25: in every state reachable by any sequence of PaginationHelper operations, calls
\* that fail included, currentPage is at least 1.
C25_CurrentPageAtLeastOne == state.currentPage >= 1

\* C26: a goToNextPage() call that fails, because the current page has no next page or
\* because the underlying fetch raises, leaves currentPageToken, previousPageTokens,
\* currentPage and totalFetched exactly as they were before the call.
C26_FailedGoToNextPageLeavesState ==
  (lastCall.op = "goToNextPage" /\ lastCall.err # "none") => state = lastCall.pre

(***************************************************************************)
(* Claims about the order of fetches and callbacks.                        *)
(***************************************************************************)
\* callback cb was called for batch k
Called(cb, k) == \E i \in 1..Len(cbLog) : cbLog[i] = [cb |-> cb, n |-> k]

\* the callback called last
LastCallback ==
  IF cbLog = <<>> THEN [cb |-> "none", n |-> 0] ELSE cbLog[Len(cbLog)]

\* C27: within one callback-driven stream run, for each batch k, onBatch(k) and then
\* onProgress(k) (or onError(k) after a failure) have completed before the fetch of
\* page k+1 is issued; no fetch is issued and no callback runs while a fetch is in
\* flight; and onComplete is invoked after the last of these callbacks, with no fetch
\* and no callback after it.
C27_CallbacksCompleteBeforeNextFetch ==
  [][ mode = "callbacks" =>
        /\ (Len(fetchLog') > Len(fetchLog) /\ Len(fetchLog) >= 1) =>
              LET k == Len(fetchLog)
              IN /\ genPc = "yielded"
                 /\ batchNumber = k
                 /\ Len(yieldLog) = k
                 /\ callbacks.onBatch => Called("onBatch", k)
                 /\ IF k \in failedBatches
                    THEN /\ callbacks.onError
                         /\ LastCallback = [cb |-> "onError", n |-> k]
                    ELSE /\ callbacks.onProgress =>
                              LastCallback = [cb |-> "onProgress", n |-> k]
                         /\ (callbacks.onBatch /\ ~callbacks.onProgress) =>
                              LastCallback = [cb |-> "onBatch", n |-> k]
        /\ genPc = "fetching" =>
              /\ fetchLog' = fetchLog
              /\ cbLog' = cbLog
        /\ Len(completeLog') > Len(completeLog) =>
              /\ genPc = "done"
              /\ fetchLog' = fetchLog
        /\ completeLog # <<>> =>
              /\ fetchLog' = fetchLog
              /\ cbLog' = cbLog
    ]_vars

\* the fetch of page 3 is in flight in a run with all callbacks registered in which
\* a callback of batch 1 raised and onError took it
C27_Witness ==
  /\ mode = "callbacks"
  /\ callbacks.onBatch /\ callbacks.onProgress /\ callbacks.onError
  /\ genPc = "fetching"
  /\ Len(fetchLog) = 3
  /\ 1 \in failedBatches
  /\ Called("onProgress", 2)

(***************************************************************************)
(* Claims about iterateAllPages.                                           *)
(***************************************************************************)
\* the token under which the adapter serves page i
TokenOfPage(i) == IF i = 1 THEN 0 ELSE i

\* C28: from whatever navigation state the helper is in when iteration starts,
\* iterateAllPages() yields every page of the feed exactly once in feed order, from
\* the first page to the page without a next cursor; it fetches nothing for page k+1
\* before the consumer has pulled past page k, and a consumer that stops pulling
\* causes no further fetch.
C28_IterateAllPagesIsLazyAndComplete ==
  /\ \A i \in 1..Len(iterFetches) : PageIndex(iterFetches[i]) <= pulls
  /\ Len(iterYields) <= Len(pages)
  /\ \A i \in 1..Len(iterYields) : iterYields[i] = PageAt(TokenOfPage(i)).emails
  /\ iterPc \in {"yielded", "stopped"} => Len(iterYields) = pulls
  /\ iterPc = "done" => (Len(iterYields) = Len(pages) /\ pulls = Len(pages) + 1)

\* an iteration that started on a later page with a history ran to its end over a
\* feed of three pages
C28_Witness ==
  /\ iterPc = "done"
  /\ Len(pages) = 3
  /\ calls >= 1
  /\ lastCall.op = "goToNextPage"
  /\ lastCall.err = "none"

(***************************************************************************)
(* Claims about fetchEmails with getAllPages.                              *)
(***************************************************************************)
\* C29: fetchEmails with getAllPages = true and limit = L returns at most L emails,
\* and whenever it also returns a nextPageToken, continuing from that token yields
\* exactly the items that follow the returned ones: no item lies between the last
\* returned email and the first item of the continuation, also when provider pages
\* are shorter than the requested page size.
C29_ContinuationFollowsReturnedEmails ==
  /\ allPc \in {"returned", "continued"} => Len(allResult.emails) <= limit
  /\ (allPc = "continued" /\ continuation # <<>>) =>
        continuation[1] = allResult.emails[Len(allResult.emails)] + 1

(***************************************************************************)
(* Claims about ImapAdapter.                                               *)
(***************************************************************************)
\* C30: every call of ImapAdapter.fetchEmails gets up to maxRetries connection
\* attempts before it fails with the connection error, whatever connection failures
\* happened in earlier calls on the same adapter instance.
C30_EveryCallGetsMaxRetriesAttempts ==
  \A i \in 1..Len(imapLog) :
     imapLog[i].outcome = "connectError" => imapLog[i].attempts = maxRetries

====
